---- MODULE Spec2Model ----
(***************************************************************************)
(* Model of schema_toolkit/prepare_schema.py (schema inference for a       *)
(* delimited table) and of its constraint merge.                            *)
(*                                                                         *)
(* Representation.                                                          *)
(*  - A table column (pandas Series) is [dtype, vals]: the dtype read_csv   *)
(*    gave it and its cells as text; "" is a missing cell.                  *)
(*  - Numbers are fixed point in quarters: NumVal("1.5") = 6.  Epoch        *)
(*    nanoseconds do not fit TLC's 32-bit integers, so the magnitude of a   *)
(*    datetime value is carried in days since 1970-01-01 (again in          *)
(*    quarters); order, equality and integrality are as in the code.        *)
(*  - A Python dict is a function on its key set; None is NONE for         *)
(*    optional strings.                                                     *)
(*  - A JSON document read from a file is reduced to the shape the code     *)
(*    inspects (isinstance checks) and the fields it reads.                 *)
(***************************************************************************)
EXTENDS Integers, Sequences, FiniteSets, TLC

NONE == "<None>"

EmptyMap == [k \in {} |-> NONE]

Put(m, k, v) == [x \in (DOMAIN m) \cup {k} |-> IF x = k THEN v ELSE m[x]]

Pop(m, k) == [x \in (DOMAIN m) \ {k} |-> m[x]]

Range(q) == {q[j] : j \in DOMAIN q}

\* Python truthiness of an optional string: None and "" are falsy.
Truthy(v) == v # NONE /\ v # ""

(***************************************************************************)
(* Cells                                                                   *)
(***************************************************************************)
NA == ""
UUID1 == "550e8400-e29b-41d4-a716-446655440000"
D1 == "2023-01-01"
D2 == "2023-01-02"
\* int64 nanoseconds since the epoch of D1 and D2, as text
E1 == "1672531200000000000"
E2 == "1672617600000000000"

BoolCells == {"True", "False"}
IntCells == {"0", "1"}
FloatCells == {"1.0", "1.5"}
DateCells == {D1, D2}
TextCells == {UUID1, "a"} \cup DateCells

\* Text that pd.to_numeric reads as a finite number.
NumericTexts == IntCells \cup FloatCells \cup {E1, E2}

\* Value of a numeric cell, in quarters (epoch values: quarters of a day).
NumVal(c) ==
  CASE c = "0" -> 0
    [] c = "1" -> 4
    [] c = "1.0" -> 4
    [] c = "1.5" -> 6
    [] c = "False" -> 0
    [] c = "True" -> 4
    [] c = E1 -> 4 * 19358
    [] c = E2 -> 4 * 19359

\* Python's order on the strings that can reach sorted().
StrRank(c) ==
  CASE c = "" -> 0
    [] c = "0" -> 1
    [] c = "0.0" -> 2
    [] c = "1" -> 3
    [] c = "1.0" -> 4
    [] c = "1.5" -> 5
    [] c = E1 -> 6
    [] c = E2 -> 7
    [] c = D1 -> 8
    [] c = D2 -> 9
    [] c = UUID1 -> 10
    [] c = "False" -> 11
    [] c = "True" -> 12
    [] c = "a" -> 13
    [] c = "b" -> 14

RECURSIVE sorted(_)
\* sorted(list(S)) for a set S of strings
sorted(S) ==
  IF S = {} THEN <<>>
  ELSE LET m == CHOOSE a \in S : \A b \in S : StrRank(a) <= StrRank(b)
       IN <<m>> \o sorted(S \ {m})

\* s.isna() / dropna(): the non-missing cells
NotNA(c) == c # NA

\* dtype pd.read_csv (engine="python", no parse_dates) gives a column
ReadCsvDtype(vals) ==
  IF \A c \in Range(vals) : c \in BoolCells THEN "bool"
  ELSE IF \A c \in Range(vals) : c \in IntCells THEN "int64"
  ELSE IF \A c \in Range(vals) : c \in NumericTexts \cup {NA} THEN "float64"
  ELSE "object"

Series(vals) == [dtype |-> ReadCsvDtype(vals), vals |-> vals]

\* pd.api.types predicates on the dtypes read_csv can give
is_bool_dtype(s) == s.dtype = "bool"

is_integer_dtype(s) == s.dtype = "int64"

is_numeric_dtype(s) == s.dtype \in {"bool", "int64", "float64"}

\* pd.to_numeric(s, errors="coerce") restricted to its finite values
IsFiniteCell(s, c) ==
  IF s.dtype = "bool" THEN TRUE ELSE c \in NumericTexts

FiniteVals(s) ==
  LET keep == SelectSeq(s.vals, LAMBDA c : IsFiniteCell(s, c))
  IN [j \in 1..Len(keep) |-> NumVal(keep[j])]

\* Series(s).astype("string").dropna().unique(), as str
AsString(s, c) ==
  IF s.dtype = "float64" /\ c \in IntCells THEN c \o ".0" ELSE c

UniqueStrings(s) == {AsString(s, c) : c \in {d \in Range(s.vals) : NotNA(d)}}

IsIntegral(v) == v % 4 = 0

Floor(v) == (v \div 4) * 4

Ceil(v) == -Floor(-v)

Abs(v) == IF v < 0 THEN -v ELSE v

Max2(a, b) == IF a >= b THEN a ELSE b

SeqMin(q) == CHOOSE a \in Range(q) : \A b \in Range(q) : a <= b

SeqMax(q) == CHOOSE a \in Range(q) : \A b \in Range(q) : a >= b

\* str(int(round(v))) for the integral values the model can hold
IntStr(v) ==
  CASE v = 0 -> "0"
    [] v = 4 -> "1"
    [] v = 4 * 19358 -> E1
    [] v = 4 * 19359 -> E2

(***************************************************************************)
(* Helpers of prepare_schema.py                                            *)
(***************************************************************************)
TargetNames == <<"target", "income", "label", "class", "outcome">>

RECURSIVE FirstIn(_, _, _)
FirstIn(names, cols, j) ==
  IF j > Len(names) THEN NONE
  ELSE IF names[j] \in cols THEN names[j]
  ELSE FirstIn(names, cols, j + 1)

_infer_target_col(cols) == FirstIn(TargetNames, cols, 1)

CanonicalTypes == {"integer", "continuous", "categorical", "ordinal"}

\* str.strip().lower() on the type strings the model can hold
StripLower(t) ==
  CASE t = " Ordinal" -> "ordinal"
    [] t = NONE -> ""
    [] OTHER -> t

_infer_target_dtype(table, col) ==
  IF col \notin DOMAIN table THEN "unknown"
  ELSE LET s == table[col]
           xn == FiniteVals(s)
       IN IF ~is_numeric_dtype(s) THEN "categorical"
          ELSE IF Len(xn) = 0 THEN "continuous"
          ELSE IF \A j \in 1..Len(xn) : IsIntegral(xn[j]) THEN "integer"
          ELSE "continuous"

_target_dtype_from_column_type(column_type) ==
  IF column_type = NONE THEN NONE
  ELSE IF StripLower(column_type) \in CanonicalTypes THEN StripLower(column_type)
  ELSE NONE

_UUID_RE(c) == c = UUID1

_is_guid_like_series(s, min_match_pct) ==
  IF s.dtype # "object" THEN FALSE
  ELSE LET x == SelectSeq(s.vals, NotNA)
       IN IF Len(x) = 0 THEN FALSE
          ELSE 100 * Len(SelectSeq(x, _UUID_RE)) >= min_match_pct * Len(x)

DatetimePatterns ==
  << "%Y-%m-%d %H:%M:%S", "%Y-%m-%d", "%d/%m/%Y %H:%M", "%d/%m/%Y",
     "%m-%d-%Y %H:%M", "%m-%d-%Y", "%Y/%m/%dT%H:%M:%SZ", "%Y/%m/%d %H:%M:%S",
     "%Y/%m/%d", "%Y.%m.%d %H:%M:%S", "%Y.%m.%d" >>

IsoSeconds == "%Y-%m-%dT%H:%M:%S"

\* pd.to_datetime(c, format=fmt, errors="coerce") is not NaT
StrptimeOk(c, fmt) == c \in DateCells /\ fmt = "%Y-%m-%d"

RECURSIVE FirstPattern(_, _)
FirstPattern(samples, j) ==
  IF j > Len(DatetimePatterns) THEN IsoSeconds
  ELSE IF 100 * Len(SelectSeq(samples, LAMBDA c : StrptimeOk(c, DatetimePatterns[j])))
            >= 80 * Len(samples)
       THEN DatetimePatterns[j]
       ELSE FirstPattern(samples, j + 1)

_guess_datetime_output_format(raw) ==
  LET samples == SelectSeq(raw, NotNA)
  IN IF Len(samples) = 0 THEN IsoSeconds ELSE FirstPattern(samples, 1)

ParseAttempts == <<"mixed", "default", "dayfirst", "yearfirst", "dayfirst_yearfirst">>

\* pd.to_datetime(c, errors="coerce", utc=True, **kw) as int64 text, NA for NaT
ToDatetime(c, kw) ==
  CASE c = D1 -> E1
    [] c = D2 -> E2
    [] OTHER -> NA

\* <<series, dt_converted, dt_fmt_hint>>
_maybe_parse_datetime_like(s, min_parse_pct) ==
  IF s.dtype = "object"
  THEN LET raw == s.vals
           n == Len(raw)
           parsed(kw) == [j \in 1..n |-> ToDatetime(raw[j], kw)]
           hits(kw) == Len(SelectSeq(parsed(kw), NotNA))
           \* the first attempt with the greatest fraction (frac > best_frac)
           best == CHOOSE a \in 1..Len(ParseAttempts) :
                     /\ \A b \in 1..Len(ParseAttempts) :
                          hits(ParseAttempts[a]) >= hits(ParseAttempts[b])
                     /\ \A b \in 1..(a - 1) :
                          hits(ParseAttempts[b]) < hits(ParseAttempts[a])
           kwBest == ParseAttempts[best]
       IN IF n > 0 /\ 100 * hits(kwBest) >= min_parse_pct * n
          THEN << [dtype |-> "float64", vals |-> parsed(kwBest)], TRUE,
                  _guess_datetime_output_format(raw) >>
          ELSE << s, FALSE, NONE >>
  ELSE << s, FALSE, NONE >>

_is_number_like_series(s) ==
  IF is_numeric_dtype(s) \/ is_bool_dtype(s) THEN TRUE
  ELSE IF s.dtype = "object"
       THEN Len(s.vals) > 0 /\
            100 * Len(SelectSeq(s.vals, LAMBDA c : c \in NumericTexts)) >= 95 * Len(s.vals)
       ELSE FALSE

\* pad_frac in quarters; the result is <<lo, hi>> in quarters
_bounds_for_number_like(s, pad_frac, integer_like) ==
  LET x == FiniteVals(s)
  IN IF Len(x) = 0 THEN <<0, 4>>
     ELSE LET vmin == SeqMin(x)
              vmax == SeqMax(x)
              span == vmax - vmin
              pad == IF span > 0 THEN (pad_frac * span) \div 4
                     ELSE IF pad_frac > 0
                          THEN Max2((Abs(vmin) * pad_frac) \div 4, 4)
                          ELSE 0
              lo == vmin - pad
              hi == vmax + pad
          IN IF integer_like THEN <<Floor(lo), Ceil(hi)>> ELSE <<lo, hi>>

\* the domain as a sequence of strings, or <<>> for None
_binary_integer_domain_values(s) ==
  LET x == FiniteVals(s)
      ux == Range(x)
  IN IF Len(x) = 0 THEN <<>>
     ELSE IF Cardinality(ux) # 2 \/ ~(\A v \in ux : IsIntegral(v)) THEN <<>>
     ELSE LET a == CHOOSE v \in ux : \A w \in ux : v <= w
              b == CHOOSE v \in ux : v # a
          IN <<IntStr(a), IntStr(b)>>

(***************************************************************************)
(* State of one run of main()                                              *)
(***************************************************************************)
VARIABLES
  df,                 \* [columns: the header, data: column name -> Series]
  args,               \* the parsed command line, with the documents it names
  pc,                 \* where main() is
  queue,              \* columns the classification loop has not reached yet
  target_col,
  type_overrides,
  column_types,
  public_categories,
  public_bounds,
  datetime_spec,
  guid_like_columns,
  target_spec,
  label_domain,
  constraints,
  out,                \* the documents written to args.out, in order
  \* one call of _merge_constraints(base, user) on the object heap
  heap,               \* address -> dict or list object
  base_at,            \* address of the base argument
  user_at,            \* address of the user argument
  ret_at,             \* address of the returned document
  mpc,                \* "call", "returned", then "mutated"
  base0,              \* deep copy of base taken before the call
  user0               \* deep copy of user taken before the call

\* one run of render_datetime.main()
VARIABLES
  data_csv,           \* the text of --data: [columns: header, data: name -> cells]
  schema_json,        \* the document of --schema
  keep_original,      \* --keep-original
  out_df,             \* name -> [dtype, vals], with its column order
  rqueue,             \* datetime_spec items the loop has not reached yet
  rpc,                \* where render_datetime.main() is
  out_csv             \* the tables written to --out, in order

renderVars == << data_csv, schema_json, keep_original, out_df, rqueue, rpc, out_csv >>

mergeVars == << heap, base_at, user_at, ret_at, mpc, base0, user0 >>

mainVars == << df, args, pc, queue, target_col, type_overrides, column_types,
               public_categories, public_bounds, datetime_spec, guid_like_columns,
               target_spec, label_domain, constraints, out >>

vars == << mainVars, mergeVars, renderVars >>

classState == << column_types, public_categories, public_bounds, datetime_spec,
                 guid_like_columns >>

NoTargetSpec ==
  [is_none |-> TRUE, targets_is_list |-> FALSE, targets |-> <<>>, kind |-> NONE,
   dtypes_is_dict |-> FALSE, dtypes |-> EmptyMap, primary_target |-> NONE]

NoConstraints ==
  [column_constraints |-> EmptyMap, cross_column_constraints |-> <<>>,
   row_group_constraints |-> <<>>]

\* no run of render_datetime.main() is under way
RenderIdle ==
  /\ data_csv = <<>>
  /\ schema_json = <<>>
  /\ keep_original = FALSE
  /\ out_df = <<>>
  /\ rqueue = <<>>
  /\ rpc = "idle"
  /\ out_csv = <<>>

\* float(args.pad_frac_integer) if it is not None else pad_frac_global;
\* an optional float is <<>> (None) or <<v>>
pad_frac_global == args.pad_frac

pad_frac_integer ==
  IF args.pad_frac_integer # <<>> THEN args.pad_frac_integer[1] ELSE pad_frac_global

pad_frac_continuous ==
  IF args.pad_frac_continuous # <<>> THEN args.pad_frac_continuous[1]
  ELSE pad_frac_global

\* lines 280-351: parse the command line, read the table, pick target_col,
\* load the column-type override document
Start ==
  /\ pc = "start"
  /\ target_col' = IF Truthy(args.target_col) THEN args.target_col
                   ELSE _infer_target_col(Range(df.columns))
  /\ IF args.column_types.given /\ ~args.column_types.isdict
     THEN /\ pc' = "error"
          /\ UNCHANGED << type_overrides, queue >>
     ELSE /\ type_overrides' = IF args.column_types.given
                               THEN args.column_types.entries ELSE EmptyMap
          /\ queue' = df.columns
          /\ pc' = IF df.columns = <<>> THEN "target" ELSE "classify"
  /\ UNCHANGED << df, args, classState, target_spec, label_domain, constraints, out,
                  mergeVars, renderVars >>

\* [raises, is_none, type, domain_given, domain_is_list, domain]
_override_for(col) ==
  IF col \notin DOMAIN type_overrides
  THEN [raises |-> FALSE, is_none |-> TRUE, type |-> NONE,
        domain_given |-> FALSE, domain_is_list |-> FALSE, domain |-> <<>>]
  ELSE LET v == type_overrides[col]
       IN IF v.shape = "str"
          THEN [raises |-> FALSE, is_none |-> FALSE, type |-> v.type,
                domain_given |-> FALSE, domain_is_list |-> FALSE, domain |-> <<>>]
          ELSE IF v.shape = "dict"
          THEN [raises |-> FALSE, is_none |-> FALSE, type |-> v.type,
                domain_given |-> v.domain_given,
                domain_is_list |-> v.domain_is_list, domain |-> v.domain]
          ELSE [raises |-> TRUE, is_none |-> FALSE, type |-> NONE,
                domain_given |-> FALSE, domain_is_list |-> FALSE, domain |-> <<>>]

DatetimeSpecEntry(dt_fmt_hint) ==
  LET out_fmt == IF StripLower(args.datetime_output_format) = "preserve"
                 THEN dt_fmt_hint ELSE args.datetime_output_format
  IN [storage |-> "epoch_ns",
      output_format |-> IF Truthy(out_fmt) THEN out_fmt ELSE IsoSeconds,
      timezone |-> "UTC"]

\* lines 376-401: the column has an override entry ov
ClassifyOverridden(c, s, dt_converted, dt_fmt_hint, ov, nextpc) ==
  LET t == StripLower(ov.type)
  IN IF t \notin CanonicalTypes
        \/ (t \in {"categorical", "ordinal"} /\ ov.domain_given /\ ~ov.domain_is_list)
     THEN /\ pc' = "error"
          /\ UNCHANGED << queue, classState >>
     ELSE /\ column_types' = Put(column_types, c, t)
          /\ IF t \in {"categorical", "ordinal"} /\ ov.domain_given
             THEN /\ public_categories' = Put(public_categories, c, ov.domain)
                  /\ UNCHANGED public_bounds
             ELSE IF t \in {"continuous", "integer"} /\ _is_number_like_series(s)
             THEN /\ public_bounds' =
                       Put(public_bounds, c,
                           _bounds_for_number_like(
                             s,
                             IF t = "integer" THEN pad_frac_integer
                             ELSE pad_frac_continuous,
                             t = "integer"))
                  /\ UNCHANGED public_categories
             ELSE UNCHANGED << public_categories, public_bounds >>
          /\ datetime_spec' = IF dt_converted
                              THEN Put(datetime_spec, c, DatetimeSpecEntry(dt_fmt_hint))
                              ELSE datetime_spec
          /\ UNCHANGED guid_like_columns
          /\ queue' = Tail(queue)
          /\ pc' = nextpc

\* a bug the loop could have: binary-domain collapse tried before the datetime
\* branch, so a column of two dates becomes ordinal
ClassifyBinaryFirst(c, s0, s, dt_converted, dt_fmt_hint, nextpc) ==
  /\ IF is_bool_dtype(s0)
     THEN /\ column_types' = Put(column_types, c, "ordinal")
          /\ public_categories' = Put(public_categories, c, <<"0", "1">>)
          /\ UNCHANGED << public_bounds, datetime_spec >>
     ELSE IF _is_number_like_series(s)
     THEN IF dt_converted
             /\ ~(args.infer_binary_domain /\ _binary_integer_domain_values(s) # <<>>)
          THEN /\ column_types' = Put(column_types, c, "integer")
               /\ datetime_spec' = Put(datetime_spec, c, DatetimeSpecEntry(dt_fmt_hint))
               /\ public_bounds' =
                    Put(public_bounds, c,
                        _bounds_for_number_like(s, pad_frac_integer, TRUE))
               /\ UNCHANGED public_categories
          ELSE LET xn == FiniteVals(s)
                   inferred_t ==
                     IF is_integer_dtype(s0) THEN "integer"
                     ELSE IF Len(xn) > 0 /\ \A j \in 1..Len(xn) : IsIntegral(xn[j])
                          THEN "integer" ELSE "continuous"
                   bin_dom == IF args.infer_binary_domain
                              THEN _binary_integer_domain_values(s) ELSE <<>>
               IN IF bin_dom # <<>>
                  THEN /\ column_types' = Put(column_types, c, "ordinal")
                       /\ public_categories' = Put(public_categories, c, bin_dom)
                       /\ datetime_spec' =
                            IF dt_converted
                            THEN Put(datetime_spec, c, DatetimeSpecEntry(dt_fmt_hint))
                            ELSE datetime_spec
                       /\ UNCHANGED public_bounds
                  ELSE /\ column_types' = Put(column_types, c, inferred_t)
                       /\ public_bounds' =
                            Put(public_bounds, c,
                                _bounds_for_number_like(
                                  s,
                                  IF inferred_t = "integer" THEN pad_frac_integer
                                  ELSE pad_frac_continuous,
                                  inferred_t = "integer"))
                       /\ UNCHANGED << public_categories, datetime_spec >>
     ELSE /\ column_types' = Put(column_types, c, "categorical")
          /\ LET u == UniqueStrings(s)
             IN public_categories' =
                  IF args.infer_categories /\ 0 < Cardinality(u)
                     /\ Cardinality(u) <= args.max_categories
                  THEN Put(public_categories, c, sorted(u))
                  ELSE public_categories
          /\ UNCHANGED << public_bounds, datetime_spec >>
  /\ UNCHANGED guid_like_columns
  /\ queue' = Tail(queue)
  /\ pc' = nextpc

\* lines 403-442: no override entry
ClassifyInferred(c, s0, s, dt_converted, dt_fmt_hint, nextpc) ==
  /\ IF is_bool_dtype(s0)
     THEN /\ column_types' = Put(column_types, c, "ordinal")
          /\ public_categories' = Put(public_categories, c, <<"0", "1">>)
          /\ UNCHANGED << public_bounds, datetime_spec >>
     ELSE IF _is_number_like_series(s)
     THEN IF dt_converted
          THEN /\ column_types' = Put(column_types, c, "integer")
               /\ datetime_spec' = Put(datetime_spec, c, DatetimeSpecEntry(dt_fmt_hint))
               /\ public_bounds' =
                    Put(public_bounds, c,
                        _bounds_for_number_like(s, pad_frac_integer, TRUE))
               /\ UNCHANGED public_categories
          ELSE LET xn == FiniteVals(s)
                   inferred_t ==
                     IF is_integer_dtype(s0) THEN "integer"
                     ELSE IF Len(xn) > 0 /\ \A j \in 1..Len(xn) : IsIntegral(xn[j])
                          THEN "integer" ELSE "continuous"
                   bin_dom == IF args.infer_binary_domain
                              THEN _binary_integer_domain_values(s) ELSE <<>>
               IN IF bin_dom # <<>>
                  THEN /\ column_types' = Put(column_types, c, "ordinal")
                       /\ public_categories' = Put(public_categories, c, bin_dom)
                       /\ UNCHANGED << public_bounds, datetime_spec >>
                  ELSE /\ column_types' = Put(column_types, c, inferred_t)
                       /\ public_bounds' =
                            Put(public_bounds, c,
                                _bounds_for_number_like(
                                  s,
                                  IF inferred_t = "integer" THEN pad_frac_integer
                                  ELSE pad_frac_continuous,
                                  inferred_t = "integer"))
                       /\ UNCHANGED << public_categories, datetime_spec >>
     ELSE /\ column_types' = Put(column_types, c, "categorical")
          /\ LET u == UniqueStrings(s)
             IN public_categories' =
                  IF args.infer_categories /\ 0 < Cardinality(u)
                     /\ Cardinality(u) <= args.max_categories
                  THEN Put(public_categories, c, sorted(u))
                  ELSE public_categories
          /\ UNCHANGED << public_bounds, datetime_spec >>
  /\ UNCHANGED guid_like_columns
  /\ queue' = Tail(queue)
  /\ pc' = nextpc

\* lines 363-442: one iteration of the classification loop
ClassifyColumn ==
  /\ pc = "classify"
  /\ queue # <<>>
  /\ LET c == Head(queue)
         s0 == df.data[c]
         nextpc == IF Tail(queue) = <<>> THEN "target" ELSE "classify"
     IN IF _is_guid_like_series(s0, args.guid_min_match_frac)
        THEN /\ column_types' = Put(column_types, c, "categorical")
             /\ guid_like_columns' = Append(guid_like_columns, c)
             /\ queue' = Tail(queue)
             /\ pc' = nextpc
             /\ UNCHANGED << public_categories, public_bounds, datetime_spec >>
        ELSE LET dt == IF args.infer_datetimes
                       THEN _maybe_parse_datetime_like(s0, args.datetime_min_parse_frac)
                       ELSE << s0, FALSE, NONE >>
                 ov == _override_for(c)
             IN IF ov.raises
                THEN /\ pc' = "error"
                     /\ UNCHANGED << queue, classState >>
                ELSE IF ~ov.is_none
                THEN ClassifyOverridden(c, dt[1], dt[2], dt[3], ov, nextpc)
                ELSE ClassifyInferred(c, s0, dt[1], dt[2], dt[3], nextpc)
  /\ UNCHANGED << df, args, target_col, type_overrides, target_spec, label_domain,
                  constraints, out, mergeVars, renderVars >>

\* lines 34-37, on the --target-cols texts the model draws
_parse_csv_list(v) ==
  CASE v = NONE -> <<>>
    [] v = "" -> <<>>
    [] v = " , " -> <<>>
    [] v = "x" -> <<"x">>
    [] v = "x, t" -> <<"x", "t">>

\* the document of --target-spec-file as the dict main() keeps
SpecFromFile(doc) ==
  [is_none |-> FALSE, targets_is_list |-> doc.targets_is_list, targets |-> doc.targets,
   kind |-> doc.kind, dtypes_is_dict |-> doc.dtypes_is_dict, dtypes |-> doc.dtypes,
   primary_target |-> doc.primary_target]

\* lines 468-486: per-target dtypes, inferred column type first
NormalizeDtypes(ts) ==
  IF ~ts.is_none /\ ts.targets_is_list /\ ts.targets # <<>>
  THEN LET existing_dtypes == IF ts.dtypes_is_dict THEN ts.dtypes ELSE EmptyMap
           ctype(t) == IF t \in DOMAIN column_types THEN column_types[t] ELSE NONE
           given(t) == IF t \in DOMAIN existing_dtypes THEN existing_dtypes[t] ELSE NONE
           norm(t) ==
             IF _target_dtype_from_column_type(ctype(t)) # NONE
             THEN _target_dtype_from_column_type(ctype(t))
             ELSE IF given(t) # NONE
             THEN IF StripLower(given(t)) \notin CanonicalTypes
                  THEN _infer_target_dtype(df.data, t)
                  ELSE StripLower(given(t))
             ELSE _infer_target_dtype(df.data, t)
       IN [ts EXCEPT !.dtypes_is_dict = TRUE,
                     !.dtypes = [t \in Range(ts.targets) |-> norm(t)]]
  ELSE ts

\* lines 450-466: the target spec built from the flags, or "raise" for SystemExit
SpecFromFlags ==
  LET listed == _parse_csv_list(args.target_cols)
      targets0 == IF listed = <<>> /\ Truthy(target_col) THEN <<target_col>> ELSE listed
      both == Truthy(args.survival_event_col) /\ Truthy(args.survival_time_col)
      either == Truthy(args.survival_event_col) \/ Truthy(args.survival_time_col)
      targets == IF both THEN <<args.survival_event_col, args.survival_time_col>>
                 ELSE targets0
      target_kind == IF both
                     THEN (IF Truthy(args.target_kind) THEN args.target_kind
                           ELSE "survival_pair")
                     ELSE args.target_kind
  IN IF ~both /\ either THEN [raises |-> TRUE, spec |-> NoTargetSpec]
     ELSE IF targets = <<>> THEN [raises |-> FALSE, spec |-> NoTargetSpec]
     ELSE [raises |-> FALSE,
           spec |-> [is_none |-> FALSE, targets_is_list |-> TRUE, targets |-> targets,
                     kind |-> IF Truthy(target_kind) THEN target_kind
                              ELSE IF Len(targets) = 1 THEN "single"
                              ELSE "multi_target",
                     dtypes_is_dict |-> TRUE,
                     dtypes |-> [t \in Range(targets) |->
                                   _infer_target_dtype(df.data, t)],
                     primary_target |-> target_col]]

\* a bug the resolution could have: the flags are consulted before the
\* --target-spec-file document
ResolveTargetFlagsFirst ==
  /\ pc = "target"
  /\ IF SpecFromFlags.raises
     THEN /\ pc' = "error"
          /\ UNCHANGED target_spec
     ELSE IF ~SpecFromFlags.spec.is_none \/ ~args.target_spec_file.given
     THEN /\ target_spec' = NormalizeDtypes(SpecFromFlags.spec)
          /\ pc' = "label"
     ELSE IF ~args.target_spec_file.isdict
     THEN /\ pc' = "error"
          /\ UNCHANGED target_spec
     ELSE /\ target_spec' = NormalizeDtypes(SpecFromFile(args.target_spec_file))
          /\ pc' = "label"
  /\ UNCHANGED << df, args, queue, target_col, type_overrides, classState,
                  label_domain, constraints, out, mergeVars, renderVars >>

\* lines 444-486
ResolveTarget ==
  /\ pc = "target"
  /\ IF args.target_spec_file.given
     THEN IF ~args.target_spec_file.isdict
          THEN /\ pc' = "error"
               /\ UNCHANGED target_spec
          ELSE /\ target_spec' = NormalizeDtypes(SpecFromFile(args.target_spec_file))
               /\ pc' = "label"
     ELSE IF SpecFromFlags.raises
          THEN /\ pc' = "error"
               /\ UNCHANGED target_spec
          ELSE /\ target_spec' = NormalizeDtypes(SpecFromFlags.spec)
               /\ pc' = "label"
  /\ UNCHANGED << df, args, queue, target_col, type_overrides, classState,
                  label_domain, constraints, out, mergeVars, renderVars >>

\* lines 497-504: the columns whose category entry suppression removes
TargetsToScrub ==
  IF ~target_spec.is_none /\ target_spec.targets_is_list THEN Range(target_spec.targets)
  ELSE IF Truthy(target_col) THEN {target_col}
  ELSE {}

\* a bug the publication could have: the label domain of a target of any
\* column type is enumerated
PublishAnyLabelDomain ==
  /\ pc = "label"
  /\ LET publish ==
           /\ Truthy(target_col)
           /\ target_col \in Range(df.columns)
           /\ ~args.no_publish_label_domain
         u == IF Truthy(target_col) /\ target_col \in Range(df.columns)
              THEN UniqueStrings(df.data[target_col]) ELSE {}
         fits == 0 < Cardinality(u) /\ Cardinality(u) <= args.max_categories
         labelled == IF publish /\ fits
                     THEN Put(public_categories, target_col, sorted(u))
                     ELSE public_categories
     IN /\ label_domain' = IF publish /\ fits THEN sorted(u) ELSE <<>>
        /\ public_categories' =
             IF args.no_publish_label_domain
             THEN [c \in (DOMAIN labelled) \ TargetsToScrub |-> labelled[c]]
             ELSE labelled
  /\ pc' = "constraints"
  /\ UNCHANGED << df, args, queue, target_col, type_overrides, column_types,
                  public_bounds, datetime_spec, guid_like_columns, target_spec,
                  constraints, out, mergeVars, renderVars >>

\* lines 488-504: label domain of the primary target, and its suppression
PublishLabelDomain ==
  /\ pc = "label"
  /\ LET publish ==
           /\ Truthy(target_col)
           /\ target_col \in Range(df.columns)
           /\ ~args.no_publish_label_domain
           /\ column_types[target_col] \in {"categorical", "ordinal"}
         u == IF Truthy(target_col) /\ target_col \in Range(df.columns)
              THEN UniqueStrings(df.data[target_col]) ELSE {}
         fits == 0 < Cardinality(u) /\ Cardinality(u) <= args.max_categories
         labelled == IF publish /\ fits
                     THEN Put(public_categories, target_col, sorted(u))
                     ELSE public_categories
     IN /\ label_domain' = IF publish /\ fits THEN sorted(u) ELSE <<>>
        /\ public_categories' =
             IF args.no_publish_label_domain
             THEN [c \in (DOMAIN labelled) \ TargetsToScrub |-> labelled[c]]
             ELSE labelled
  /\ pc' = "constraints"
  /\ UNCHANGED << df, args, queue, target_col, type_overrides, column_types,
                  public_bounds, datetime_spec, guid_like_columns, target_spec,
                  constraints, out, mergeVars, renderVars >>

\* a bug the merge could have: the user's rules replace the generated ones
OverlayReplace(b, u) == u

\* dict.update: b overlaid key by key with u
Overlay(b, u) ==
  [k \in (DOMAIN b) \cup (DOMAIN u) |-> IF k \in DOMAIN u THEN u[k] ELSE b[k]]

\* lines 221-230: the rule object of one column
ColumnRule(col, ctypes, categories, bounds, guids) ==
  LET keys == {"type"}
              \cup (IF col \in DOMAIN categories THEN {"allowed_values"} ELSE {})
              \cup (IF col \in DOMAIN bounds /\ Len(bounds[col]) = 2
                    THEN {"min", "max"} ELSE {})
              \cup (IF col \in Range(guids) THEN {"semantic_role"} ELSE {})
  IN [k \in keys |->
        CASE k = "type" -> ctypes[col]
          [] k = "allowed_values" -> categories[col]
          [] k = "min" -> bounds[col][1]
          [] k = "max" -> bounds[col][2]
          [] k = "semantic_role" -> "identifier"]

SurvivalPairRecord(event_col, time_col) ==
  [name |-> "survival_pair_definition", type |-> "survival_pair",
   event_col |-> event_col, time_col |-> time_col,
   event_allowed_values |-> <<0, 1>>, time_min_exclusive |-> 0]

\* lines 210-258
_build_constraints(ctypes, categories, bounds, guids, ts) ==
  LET cc0 == [col \in DOMAIN ctypes |-> ColumnRule(col, ctypes, categories, bounds, guids)]
      paired == /\ ~ts.is_none
                /\ ts.kind = "survival_pair"
                /\ ts.targets_is_list
                /\ Len(ts.targets) >= 2
      event_col == ts.targets[1]
      time_col == ts.targets[2]
      ec == Put(IF event_col \in DOMAIN cc0 THEN cc0[event_col]
                ELSE [k \in {"type"} |-> "categorical"],
                "allowed_values", <<"0", "1">>)
      cc1 == Put(cc0, event_col, ec)
      tc == Put(IF time_col \in DOMAIN cc1 THEN cc1[time_col]
                ELSE [k \in {"type"} |-> "continuous"],
                "min_exclusive", 0)
      cc2 == Put(cc1, time_col, tc)
  IN [column_constraints |-> IF paired THEN cc2 ELSE cc0,
      cross_column_constraints |->
        IF paired THEN <<SurvivalPairRecord(event_col, time_col)>> ELSE <<>>,
      row_group_constraints |-> <<>>]

\* lines 261-277, by value: the document the call returns
_merge_constraints(base, user) ==
  LET cc0 == base.column_constraints
      ucols == IF user.cc_is_dict
               THEN {c \in DOMAIN user.column_constraints :
                       user.column_constraints[c].isdict}
               ELSE {}
  IN [column_constraints |->
        [c \in (DOMAIN cc0) \cup ucols |->
           IF c \in ucols
           THEN Overlay(IF c \in DOMAIN cc0 THEN cc0[c] ELSE EmptyMap,
                        user.column_constraints[c].kv)
           ELSE cc0[c]],
      cross_column_constraints |->
        base.cross_column_constraints
          \o (IF user.cross_is_list THEN user.cross_column_constraints ELSE <<>>),
      row_group_constraints |->
        base.row_group_constraints
          \o (IF user.rg_is_list THEN user.row_group_constraints ELSE <<>>)]

\* lines 506-539 and 553: the document json.dumps serialises
Schema ==
  [target_col |-> target_col,
   label_domain |-> label_domain,
   public_bounds |-> public_bounds,
   public_categories |-> public_categories,
   column_types |-> column_types,
   datetime_spec |-> datetime_spec,
   guid_like_columns |-> guid_like_columns,
   target_spec |-> target_spec,
   constraints |-> constraints]

\* a bug main() could have: the schema is written before the constraints
\* document is checked
WriteBeforeMerge ==
  /\ pc = "constraints"
  /\ LET generated == _build_constraints(column_types, public_categories,
                                         public_bounds, guid_like_columns, target_spec)
     IN /\ out' = Append(out, [Schema EXCEPT !.constraints = generated])
        /\ IF ~args.constraints_file.given
           THEN /\ constraints' = generated
                /\ pc' = "done"
           ELSE IF ~args.constraints_file.isdict
           THEN /\ pc' = "error"
                /\ UNCHANGED constraints
           ELSE /\ constraints' = _merge_constraints(generated, args.constraints_file)
                /\ pc' = "done"
  /\ UNCHANGED << df, args, queue, target_col, type_overrides, classState,
                  target_spec, label_domain, mergeVars, renderVars >>

\* lines 506-553: the schema's constraints, generated then merged with the user's
AssembleConstraints ==
  /\ pc = "constraints"
  /\ LET generated == _build_constraints(column_types, public_categories,
                                         public_bounds, guid_like_columns, target_spec)
     IN IF ~args.constraints_file.given
        THEN /\ constraints' = generated
             /\ pc' = "write"
        ELSE IF ~args.constraints_file.isdict
        THEN /\ pc' = "error"
             /\ UNCHANGED constraints
        ELSE /\ constraints' = _merge_constraints(generated, args.constraints_file)
             /\ pc' = "write"
  /\ UNCHANGED << df, args, queue, target_col, type_overrides, classState,
                  target_spec, label_domain, out, mergeVars, renderVars >>

\* lines 555-557
WriteSchema ==
  /\ pc = "write"
  /\ out' = Append(out, Schema)
  /\ pc' = "done"
  /\ UNCHANGED << df, args, queue, target_col, type_overrides, classState,
                  target_spec, label_domain, constraints, mergeVars, renderVars >>

(***************************************************************************)
(* Inputs                                                                  *)
(***************************************************************************)
NRows == 2

DefaultPadFrac == 0
DefaultMaxCategories == 200
DefaultDatetimeMinParsePct == 95
DefaultGuidMinMatchPct == 95

\* Columns of n rows over a set of cells.  prepare_schema never looks at the
\* position of a row, so one order of each multiset of cells is drawn.
Rows(cells, n) ==
  {q \in [1..n -> cells] : \A j \in 1..(n - 1) : StrRank(q[j]) <= StrRank(q[j + 1])}

Catalogue ==
  {Series(v) : v \in Rows(BoolCells, NRows) \cup Rows(IntCells, NRows)
                     \cup Rows(FloatCells \cup {NA}, NRows)
                     \cup Rows(TextCells \cup {NA}, NRows)}

\* a boolean, an integer, a date, a GUID and a text column
FewColumns ==
  {Series(v) : v \in {[j \in 1..NRows |-> IF j = 1 THEN "False" ELSE "True"],
                      [j \in 1..NRows |-> IF j = 1 THEN "0" ELSE "1"],
                      [j \in 1..NRows |-> UUID1],
                      [j \in 1..NRows |-> "a"]}}

Table1(name, s) == [columns |-> <<name>>, data |-> [k \in {name} |-> s]]

Table2(n1, s1, n2, s2) ==
  [columns |-> <<n1, n2>>, data |-> [k \in {n1, n2} |-> IF k = n1 THEN s1 ELSE s2]]

\* --column-types documents
NoOverrides == [given |-> FALSE, isdict |-> FALSE, entries |-> EmptyMap]

OverrideStr(t) ==
  [shape |-> "str", type |-> t, domain_given |-> FALSE, domain_is_list |-> FALSE,
   domain |-> <<>>]

OverrideDict(t, given, islist, dom) ==
  [shape |-> "dict", type |-> t, domain_given |-> given, domain_is_list |-> islist,
   domain |-> dom]

OverrideOther == [OverrideStr(NONE) EXCEPT !.shape = "other"]

GoodOverrides ==
  {OverrideStr("integer"), OverrideStr("continuous"), OverrideStr("categorical"),
   OverrideStr("ordinal"), OverrideDict(" Ordinal", TRUE, TRUE, <<"a", "b">>)}

BadOverrides ==
  {OverrideStr("date"), OverrideDict(NONE, FALSE, FALSE, <<>>),
   OverrideDict("categorical", TRUE, FALSE, <<>>), OverrideOther}

OverrideDocs(entriesFor) ==
  {NoOverrides, [given |-> TRUE, isdict |-> FALSE, entries |-> EmptyMap]}
  \cup {[given |-> TRUE, isdict |-> TRUE, entries |-> [k \in {"x"} |-> e]] :
          e \in entriesFor}

\* --target-spec-file documents
NoSpecFile ==
  [given |-> FALSE, isdict |-> FALSE, targets_is_list |-> FALSE, targets |-> <<>>,
   kind |-> NONE, dtypes_is_dict |-> FALSE, dtypes |-> EmptyMap,
   primary_target |-> NONE]

SpecDoc(kind, islist, targets) ==
  [NoSpecFile EXCEPT !.given = TRUE, !.isdict = TRUE, !.kind = kind,
                     !.targets_is_list = islist, !.targets = targets]

SpecFiles ==
  {NoSpecFile, [NoSpecFile EXCEPT !.given = TRUE],
   SpecDoc("survival_pair", TRUE, <<"x", "t">>),
   SpecDoc("survival_pair", TRUE, <<"x">>),
   SpecDoc("single", TRUE, <<"x">>),
   SpecDoc(NONE, FALSE, <<>>)}

\* --constraints-file documents
NoConstraintsFile ==
  [given |-> FALSE, isdict |-> FALSE, cc_is_dict |-> FALSE,
   column_constraints |-> EmptyMap, cross_is_list |-> FALSE,
   cross_column_constraints |-> <<>>, rg_is_list |-> FALSE,
   row_group_constraints |-> <<>>]

UserRules(kv) == [isdict |-> TRUE, kv |-> kv]

ConstraintsDocA ==
  [given |-> TRUE, isdict |-> TRUE, cc_is_dict |-> TRUE,
   column_constraints |->
     [c \in {"x", "icd_10_code", "t"} |->
        CASE c = "x" -> UserRules([k \in {"allowed_values"} |-> <<"a">>])
          [] c = "icd_10_code" ->
               UserRules([k \in {"constraint_class"} |-> "RegexMatch"])
          [] c = "t" -> [isdict |-> FALSE, kv |-> EmptyMap]],
   cross_is_list |-> TRUE,
   cross_column_constraints |-> <<[constraint_class |-> "Inequality"]>>,
   rg_is_list |-> TRUE,
   row_group_constraints |-> <<[constraint_class |-> "MonotonicOrdering"]>>]

ConstraintsDocB ==
  [NoConstraintsFile EXCEPT !.given = TRUE, !.isdict = TRUE, !.cross_is_list = TRUE,
     !.cross_column_constraints = <<SurvivalPairRecord("x", "t")>>]

ConstraintsFiles ==
  {NoConstraintsFile, [NoConstraintsFile EXCEPT !.given = TRUE],
   ConstraintsDocA, ConstraintsDocB}

ArgSpace(tcol, tcols, kinds, evs, tms, overrides, specs, cons, flags) ==
  [target_col : tcol, target_cols : tcols, target_kind : kinds,
   survival_event_col : evs, survival_time_col : tms,
   column_types : overrides, target_spec_file : specs, constraints_file : cons,
   infer_categories : flags, infer_binary_domain : flags,
   infer_datetimes : flags, no_publish_label_domain : BOOLEAN,
   pad_frac : {DefaultPadFrac}, pad_frac_integer : {<<>>},
   pad_frac_continuous : {<<>>}, max_categories : {DefaultMaxCategories},
   datetime_min_parse_frac : {DefaultDatetimeMinParsePct},
   guid_min_match_frac : {DefaultGuidMinMatchPct},
   datetime_output_format : {"preserve"}]

\* every column of the catalogue under every classification option
ColumnRuns ==
  [df : {Table1(n, s) : n \in {"x", "target"}, s \in Catalogue},
   args : ArgSpace({NONE, "x"}, {NONE}, {NONE}, {NONE, "x"}, {NONE, "t"},
                   OverrideDocs(GoodOverrides \cup BadOverrides),
                   {NoSpecFile}, {NoConstraintsFile}, BOOLEAN)]

\* every way of naming the targets, over a few tables
TargetRuns ==
  [df : {Table1(n, s) : n \in {"x", "target"}, s \in FewColumns}
        \cup {Table2("x", s, "target", s) : s \in FewColumns},
   args : ArgSpace({NONE, "x"}, {NONE, "x", "x, t"}, {NONE, "survival_pair"},
                   {NONE, "x"}, {NONE, "t"},
                   OverrideDocs({OverrideStr("ordinal")}),
                   SpecFiles, ConstraintsFiles, {TRUE})]

\* pad fractions in quarters: 0, 0.5, 1.0 and, since argparse's float takes
\* any number, -1.0
PadFracs == {DefaultPadFrac, 2, 4, -4}

\* every column of the catalogue under every padding option
BoundsRuns ==
  {[df |-> Table1("x", s),
    args |-> [a EXCEPT !.pad_frac = p, !.pad_frac_integer = pi,
                       !.pad_frac_continuous = pk]] :
     s \in Catalogue,
     a \in ArgSpace({NONE, "x"}, {NONE}, {NONE}, {NONE}, {NONE},
                    OverrideDocs({OverrideStr("integer"), OverrideStr("continuous")}),
                    {NoSpecFile}, {NoConstraintsFile}, BOOLEAN),
     p \in PadFracs, pi \in {<<>>, <<2>>}, pk \in {<<>>, <<DefaultPadFrac>>}}

\* an integer event column and a time column, with and without a
\* survival_pair document in --target-spec-file
SurvivalRuns ==
  [df : {Table2("x", s, "t", Series(<<"1", "1.5">>)) :
           s \in {Series(v) : v \in Rows(IntCells, NRows)}},
   args : ArgSpace({NONE, "x"}, {NONE}, {NONE}, {NONE, "x"}, {NONE, "t"},
                   {NoOverrides},
                   {NoSpecFile, SpecDoc("survival_pair", TRUE, <<"x", "t">>)},
                   {NoConstraintsFile}, BOOLEAN)]

\* no merge call is under way
MergeIdle ==
  /\ heap = <<>>
  /\ base_at = 0
  /\ user_at = 0
  /\ ret_at = 0
  /\ mpc = "idle"
  /\ base0 = <<>>
  /\ user0 = <<>>

Init ==
  /\ \E run \in ColumnRuns \cup TargetRuns \cup BoundsRuns \cup SurvivalRuns :
       /\ df = run.df
       /\ args = run.args
  /\ MergeIdle
  /\ RenderIdle
  /\ pc = "start"
  /\ queue = <<>>
  /\ target_col = NONE
  /\ type_overrides = EmptyMap
  /\ column_types = EmptyMap
  /\ public_categories = EmptyMap
  /\ public_bounds = EmptyMap
  /\ datetime_spec = EmptyMap
  /\ guid_like_columns = <<>>
  /\ target_spec = NoTargetSpec
  /\ label_domain = <<>>
  /\ constraints = NoConstraints
  /\ out = <<>>

Next ==
  \/ Start
  \/ ClassifyColumn
  \/ ResolveTarget
  \/ PublishLabelDomain
  \/ AssembleConstraints
  \/ WriteSchema

Spec == Init /\ [][Next]_vars

(***************************************************************************)
(* Properties of the written schema                                        *)
(***************************************************************************)
Written == Range(out)

GuidLike(c) == _is_guid_like_series(df.data[c], args.guid_min_match_frac)

\* C1: a column classified GUID-like is typed categorical, is listed in
\* provenance.guid_like_columns and is never a key of public_categories in
\* the written schema.
C1_GuidNeverPublished ==
  \A s \in Written : \A c \in Range(df.columns) :
    GuidLike(c) =>
      /\ s.column_types[c] = "categorical"
      /\ c \in Range(s.guid_like_columns)
      /\ c \notin DOMAIN s.public_categories

\* C2: a native boolean column is written as ordinal with domain exactly
\* ["0","1"] and has no public_bounds entry, whatever the other inputs.
C2_BooleanOrdinalZeroOne ==
  \A s \in Written : \A c \in Range(df.columns) :
    is_bool_dtype(df.data[c]) =>
      /\ s.column_types[c] = "ordinal"
      /\ c \in DOMAIN s.public_categories
      /\ s.public_categories[c] = <<"0", "1">>
      /\ c \notin DOMAIN s.public_bounds

\* C3: with label-domain suppression requested, label_domain is empty and the
\* primary target column is not a key of public_categories.
C3_SuppressionScrubsPrimaryTarget ==
  \A s \in Written :
    args.no_publish_label_domain =>
      /\ s.label_domain = <<>>
      /\ (Truthy(s.target_col) => s.target_col \notin DOMAIN s.public_categories)

\* C4 as claimed: every column with a datetime_spec entry is typed integer.
C4_DatetimeAlwaysInteger ==
  \A s \in Written : \A c \in DOMAIN s.datetime_spec :
    s.column_types[c] = "integer"

\* C4 as amended: a column with a datetime_spec entry and no column-type
\* override entry is typed integer (never ordinal); with an override entry
\* it has the override's type.
C4_DatetimeIntegerUnlessOverridden ==
  \A s \in Written : \A c \in DOMAIN s.datetime_spec :
    IF c \in DOMAIN type_overrides
    THEN s.column_types[c] = StripLower(type_overrides[c].type)
    ELSE s.column_types[c] = "integer"

\* a written schema with a datetime column of exactly two distinct dates, no
\* override entry, and binary-domain inference on
C4_Witness ==
  \E s \in Written : \E c \in DOMAIN s.datetime_spec :
    /\ c \notin DOMAIN type_overrides
    /\ args.infer_binary_domain
    /\ Cardinality(Range(df.data[c].vals)) = 2
    /\ Range(df.data[c].vals) \subseteq DateCells

PartialSurvival ==
  Truthy(args.survival_event_col) # Truthy(args.survival_time_col)

\* C7: with exactly one of the survival flags the run never writes a schema.
C7_PartialSurvivalAborts ==
  PartialSurvival => (out = <<>> /\ pc \notin {"write", "done"})

\* C8: the output is written at most once, as the last step, and never in a
\* run that ends in a configuration error.
C8_WrittenOnceAtTheEnd ==
  /\ Len(out) <= 1
  /\ (out # <<>> => pc = "done")
  /\ (pc = "error" => out = <<>>)

\* a run that reached the last check before the write and failed there
C8_Witness ==
  /\ pc = "error"
  /\ args.constraints_file.given
  /\ ~args.constraints_file.isdict
  /\ column_types # EmptyMap

IsSurvivalPair(ts) == ~ts.is_none /\ ts.kind = "survival_pair"

\* C9: a written target_spec of kind survival_pair has exactly two targets.
C9_SurvivalPairHasTwoTargets ==
  \A s \in Written :
    IsSurvivalPair(s.target_spec) =>
      (s.target_spec.targets_is_list /\ Len(s.target_spec.targets) = 2)

SurvivalRecords(cross) ==
  SelectSeq(cross, LAMBDA r : "type" \in DOMAIN r /\ r.type = "survival_pair")

\* C10: for a survival_pair target_spec the written constraints hold exactly
\* one survival_pair record, naming targets[0] and targets[1], and the two
\* columns' rules agree with it; for any other target spec the generated
\* constraints hold no survival_pair record.
C10_OneSurvivalRecord ==
  \A s \in Written :
    LET ts == s.target_spec
        recs == SurvivalRecords(s.constraints.cross_column_constraints)
        cc == s.constraints.column_constraints
        generated == _build_constraints(s.column_types, s.public_categories,
                                        s.public_bounds, s.guid_like_columns, ts)
    IN IF IsSurvivalPair(ts)
       THEN /\ Len(recs) = 1
            /\ ts.targets_is_list
            /\ Len(ts.targets) >= 2
            /\ recs[1].event_col = ts.targets[1]
            /\ recs[1].time_col = ts.targets[2]
            /\ recs[1].event_allowed_values = <<0, 1>>
            /\ recs[1].time_min_exclusive = 0
            /\ ts.targets[1] \in DOMAIN cc
            /\ "allowed_values" \in DOMAIN cc[ts.targets[1]]
            /\ cc[ts.targets[1]].allowed_values = <<"0", "1">>
            /\ ts.targets[2] \in DOMAIN cc
            /\ "min_exclusive" \in DOMAIN cc[ts.targets[2]]
            /\ cc[ts.targets[2]].min_exclusive = 0
       ELSE SurvivalRecords(generated.cross_column_constraints) = <<>>

(***************************************************************************)
(* _merge_constraints on the object heap                                   *)
(*                                                                         *)
(* A value is a scalar Sc(n) or a reference Ref(a) to the object at        *)
(* address a; an object is a dict or a list of values.  The base document  *)
(* lives at addresses 1..19, the user document at 20..39, copy.deepcopy    *)
(* puts the copy of the object at a on a + 40, and the dicts and lists the *)
(* call creates get addresses from 80.                                     *)
(***************************************************************************)
Sc(n) == [ref |-> FALSE, v |-> n]

Ref(a) == [ref |-> TRUE, v |-> a]

DictObj(d) == [kind |-> "dict", d |-> d, l |-> <<>>]

ListObj(l) == [kind |-> "list", d |-> <<>>, l |-> l]

Values(o) == Range(o.d) \cup Range(o.l)

Succ(h, a) == {v.v : v \in {w \in Values(h[a]) : w.ref}}

RECURSIVE ReachFrom(_, _, _)
ReachFrom(h, frontier, seen) ==
  IF frontier = {} THEN seen
  ELSE LET nxt == (UNION {Succ(h, a) : a \in frontier}) \ seen
       IN ReachFrom(h, nxt, seen \cup nxt)

\* the objects a document is made of
Reach(h, a) == ReachFrom(h, {a}, {a})

RECURSIVE Tree(_, _)
\* the document at a as a value: what == compares
Tree(h, a) ==
  [kind |-> h[a].kind,
   d |-> [k \in DOMAIN h[a].d |->
            IF h[a].d[k].ref THEN Tree(h, h[a].d[k].v) ELSE h[a].d[k]],
   l |-> [j \in DOMAIN h[a].l |->
            IF h[a].l[j].ref THEN Tree(h, h[a].l[j].v) ELSE h[a].l[j]]]

Moved(v, off) == IF v.ref THEN Ref(v.v + off) ELSE v

\* a bug the copy could have: dict(base), which shares every nested object
ShallowCopy(h, r, off) == ((r + off) :> h[r]) @@ h

\* copy.deepcopy(r): the copy of r is at r + off
DeepCopy(h, r, off) ==
  [x \in {a + off : a \in Reach(h, r)} |->
     [kind |-> h[x - off].kind,
      d |-> [k \in DOMAIN h[x - off].d |-> Moved(h[x - off].d[k], off)],
      l |-> [j \in DOMAIN h[x - off].l |-> Moved(h[x - off].l[j], off)]]] @@ h

SetKey(h, a, k, v) == [h EXCEPT ![a].d = Put(@, k, v)]

\* dict.setdefault(key, <a new empty object at fresh>)
SetDefault(h, a, key, fresh, empty) ==
  IF key \in DOMAIN h[a].d THEN h
  ELSE SetKey((fresh :> empty) @@ h, a, key, Ref(fresh))

\* isinstance(v, dict), isinstance(v, list)
IsDict(h, v) == v.ref /\ h[v.v].kind = "dict"

IsList(h, v) == v.ref /\ h[v.v].kind = "list"

\* user.get(key): the value, or Sc(0) standing for None
GetKey(h, a, key) == IF key \in DOMAIN h[a].d THEN h[a].d[key] ELSE Sc(0)

FreshRule(col) == IF col = "colA" THEN 83 ELSE 84

RECURSIVE UpdateColumns(_, _, _, _)
\* lines 268-272: for col, rules in user["column_constraints"].items()
UpdateColumns(h, occ, ucc, cols) ==
  IF cols = {} THEN h
  ELSE LET col == CHOOSE c \in cols : TRUE
           rules == h[ucc].d[col]
           hNew == IF col \notin DOMAIN h[occ].d
                   THEN SetKey((FreshRule(col) :> DictObj(<<>>)) @@ h, occ, col,
                               Ref(FreshRule(col)))
                   ELSE h
           rule == hNew[occ].d[col].v
           hUpd == IF IsDict(h, rules)
                   THEN [hNew EXCEPT ![rule].d = Overlay(@, h[rules.v].d)]
                   ELSE h
       IN UpdateColumns(hUpd, occ, ucc, cols \ {col})

\* lines 273-276: out[key].extend(copy.deepcopy(user[key]))
ExtendList(h, o, u, key) ==
  IF IsList(h, GetKey(h, u, key))
  THEN LET src == GetKey(h, u, key).v
           hc == DeepCopy(h, src, 40)
           dst == hc[o].d[key].v
       IN [hc EXCEPT ![dst].l = @ \o hc[src + 40].l]
  ELSE h

\* lines 261-277: the heap after the call, the result being at b + 40
MergeOnHeap(h, b, u) ==
  LET o == b + 40
      h1 == DeepCopy(h, b, 40)
      h2 == SetDefault(h1, o, "column_constraints", 80, DictObj(<<>>))
      h3 == SetDefault(h2, o, "cross_column_constraints", 81, ListObj(<<>>))
      h4 == SetDefault(h3, o, "row_group_constraints", 82, ListObj(<<>>))
      ucc == GetKey(h4, u, "column_constraints")
      h5 == IF IsDict(h4, ucc)
            THEN UpdateColumns(h4, h4[o].d["column_constraints"].v, ucc.v,
                               DOMAIN h4[ucc.v].d)
            ELSE h4
      h6 == ExtendList(h5, o, u, "cross_column_constraints")
  IN ExtendList(h6, o, u, "row_group_constraints")

\* no run of main() is under way
MainIdle ==
  /\ df = <<>>
  /\ args = <<>>
  /\ pc = "idle"
  /\ queue = <<>>
  /\ target_col = NONE
  /\ type_overrides = EmptyMap
  /\ column_types = EmptyMap
  /\ public_categories = EmptyMap
  /\ public_bounds = EmptyMap
  /\ datetime_spec = EmptyMap
  /\ guid_like_columns = <<>>
  /\ target_spec = NoTargetSpec
  /\ label_domain = <<>>
  /\ constraints = NoConstraints
  /\ out = <<>>

MaxList == 1

TopKeys == {"column_constraints", "cross_column_constraints", "row_group_constraints"}

\* a list of n records {"type": tag + j} at first + 1 .. first + n
RecordList(at, first, n, tag) ==
  (at :> ListObj([j \in 1..n |-> Ref(first + j)]))
  @@ [a \in {first + j : j \in 1..n} |->
        DictObj([k \in {"type"} |-> Sc(tag + (a - first))])]

\* the base document: which of the three keys it has, the rule object of
\* colA ("none", "flat" or "nested"), the number of cross-column records
BaseHeap(keys, rule, n) ==
  (1 :> DictObj([k \in keys |->
                   CASE k = "column_constraints" -> Ref(2)
                     [] k = "cross_column_constraints" -> Ref(3)
                     [] k = "row_group_constraints" -> Ref(4)]))
  @@ (2 :> DictObj(IF rule = "none" THEN <<>> ELSE [c \in {"colA"} |-> Ref(5)]))
  @@ (5 :> DictObj(IF rule = "nested"
                   THEN [k \in {"min", "allowed_values"} |->
                           IF k = "min" THEN Sc(0) ELSE Ref(6)]
                   ELSE [k \in {"min"} |-> Sc(0)]))
  @@ (6 :> ListObj(<<Sc(1), Sc(2)>>))
  @@ RecordList(3, 10, n, 0)
  @@ (4 :> ListObj(<<>>))

\* the user document: each key absent, of the expected type ("ok") or of
\* another type; the rules of colA absent, not a dict ("other"), "flat" or
\* "nested"; whether colB has rules; the number of cross-column records
UserHeap(cc, cross, rg, ruleA, ruleB, n) ==
  (20 :> DictObj([k \in {key \in TopKeys :
                           CASE key = "column_constraints" -> cc # "absent"
                             [] key = "cross_column_constraints" -> cross # "absent"
                             [] key = "row_group_constraints" -> rg # "absent"} |->
                    CASE k = "column_constraints" ->
                           IF cc = "ok" THEN Ref(21) ELSE Sc(3)
                      [] k = "cross_column_constraints" ->
                           IF cross = "ok" THEN Ref(22) ELSE Sc(3)
                      [] k = "row_group_constraints" ->
                           IF rg = "ok" THEN Ref(23) ELSE Sc(3)]))
  @@ (21 :> DictObj([c \in (IF ruleA = "absent" THEN {} ELSE {"colA"})
                            \cup (IF ruleB THEN {"colB"} ELSE {}) |->
                       IF c = "colB" THEN Ref(25)
                       ELSE IF ruleA = "other" THEN Sc(4) ELSE Ref(24)]))
  @@ (24 :> DictObj(IF ruleA = "nested"
                    THEN [k \in {"min", "allowed_values"} |->
                            IF k = "min" THEN Sc(5) ELSE Ref(26)]
                    ELSE [k \in {"max"} |-> Sc(10)]))
  @@ (25 :> DictObj([k \in {"max"} |-> Sc(10)]))
  @@ (26 :> ListObj(<<Sc(3)>>))
  @@ RecordList(22, 30, n, 20)
  @@ (23 :> ListObj(<<Sc(8)>>))

InitMerge ==
  /\ MainIdle
  /\ RenderIdle
  /\ \E keys \in SUBSET TopKeys, rule \in {"none", "flat", "nested"},
        nb \in 0..MaxList, nu \in 0..MaxList,
        cc \in {"absent", "ok", "other"}, cross \in {"absent", "ok", "other"},
        rg \in {"absent", "ok"}, ruleA \in {"absent", "other", "flat", "nested"},
        ruleB \in BOOLEAN :
       heap = BaseHeap(keys, rule, nb) @@ UserHeap(cc, cross, rg, ruleA, ruleB, nu)
  /\ base_at = 1
  /\ user_at = 20
  /\ ret_at = 0
  /\ mpc = "call"
  /\ base0 = Tree(heap, 1)
  /\ user0 = Tree(heap, 20)

\* merged = _merge_constraints(base_at, user_at)
MergeCall ==
  /\ mpc = "call"
  /\ heap' = MergeOnHeap(heap, base_at, user_at)
  /\ ret_at' = base_at + 40
  /\ mpc' = "returned"
  /\ UNCHANGED << base_at, user_at, base0, user0, mainVars, renderVars >>

\* the caller changes, in place, an object of the returned document
MutateDict ==
  /\ mpc = "returned"
  /\ \E a \in Reach(heap, ret_at) :
       /\ heap[a].kind = "dict"
       /\ \E k \in (DOMAIN heap[a].d) \cup {"note"} :
            heap' = SetKey(heap, a, k, Sc(99))
  /\ mpc' = "mutated"
  /\ UNCHANGED << base_at, user_at, ret_at, base0, user0, mainVars, renderVars >>

MutateList ==
  /\ mpc = "returned"
  /\ \E a \in Reach(heap, ret_at) :
       /\ heap[a].kind = "list"
       /\ heap' = [heap EXCEPT ![a].l = Append(@, Sc(99))]
  /\ mpc' = "mutated"
  /\ UNCHANGED << base_at, user_at, ret_at, base0, user0, mainVars, renderVars >>

NextMerge ==
  \/ MergeCall
  \/ MutateDict
  \/ MutateList

SpecMerge == InitMerge /\ [][NextMerge]_vars

(***************************************************************************)
(* Properties of _merge_constraints                                        *)
(***************************************************************************)
\* C5: the call leaves base and user structurally equal to the deep copies
\* taken before it, and changing the returned document in place afterwards
\* does not change base.
C5_MergeLeavesArgumentsUnchanged ==
  /\ (mpc \in {"returned", "mutated"} => Tree(heap, base_at) = base0)
  /\ (mpc = "returned" => Tree(heap, user_at) = user0)

\* the caller has changed an object of the result that was copied from base
C5_Witness ==
  /\ mpc = "mutated"
  /\ \E a \in Reach(heap, base_at) :
       /\ (a + 40) \in Reach(heap, ret_at)
       /\ Sc(99) \in Values(heap[a + 40])

IsDictTree(t) == "kind" \in DOMAIN t /\ t.kind = "dict"

IsListTree(t) == "kind" \in DOMAIN t /\ t.kind = "list"

\* the rule objects of the base document, by column
BaseRules ==
  IF "column_constraints" \in DOMAIN base0.d
  THEN base0.d["column_constraints"].d ELSE <<>>

\* the rule objects of the user document, by column
UserRuleObjects ==
  LET ucc == IF "column_constraints" \in DOMAIN user0.d
             THEN user0.d["column_constraints"] ELSE Sc(0)
  IN IF IsDictTree(ucc)
     THEN [c \in {x \in DOMAIN ucc.d : IsDictTree(ucc.d[x])} |-> ucc.d[c].d]
     ELSE <<>>

BaseList(key) == IF key \in DOMAIN base0.d THEN base0.d[key].l ELSE <<>>

UserList(key) ==
  IF key \in DOMAIN user0.d /\ IsListTree(user0.d[key]) THEN user0.d[key].l ELSE <<>>

BoundedSeries(c) ==
  IF args.infer_datetimes
  THEN _maybe_parse_datetime_like(df.data[c], args.datetime_min_parse_frac)[1]
  ELSE df.data[c]

\* the pad fraction the classification loop hands to the bounds of a column
\* of type t (lines 388, 415, 430)
PadFor(t) == IF t = "integer" THEN pad_frac_integer ELSE pad_frac_continuous

\* C11: every public_bounds entry [lo, hi] has lo <= hi; with finite values
\* lo <= their minimum and hi >= their maximum, with equality when the
\* applicable pad fraction is 0; with no finite value the entry is [0.0, 1.0].
C11_BoundsEncloseFiniteValues ==
  \A s \in Written : \A c \in DOMAIN s.public_bounds :
    LET b == s.public_bounds[c]
        x == FiniteVals(BoundedSeries(c))
    IN /\ b[1] <= b[2]
       /\ IF Len(x) = 0 THEN b = <<0, 4>>
          ELSE /\ b[1] <= SeqMin(x)
               /\ b[2] >= SeqMax(x)
               /\ (PadFor(s.column_types[c]) = 0 =>
                     (b[1] = SeqMin(x) /\ b[2] = SeqMax(x)))

(***************************************************************************)
(* Properties of target resolution                                         *)
(***************************************************************************)
SurvivalPairGiven ==
  Truthy(args.survival_event_col) /\ Truthy(args.survival_time_col)

\* the single target: --target-col, else the inferred name, else NONE
SingleTarget ==
  IF Truthy(args.target_col) THEN args.target_col
  ELSE _infer_target_col(Range(df.columns))

\* no source of targets at all
NoTargetGiven ==
  /\ ~args.target_spec_file.given
  /\ ~Truthy(args.survival_event_col)
  /\ ~Truthy(args.survival_time_col)
  /\ _parse_csv_list(args.target_cols) = <<>>
  /\ ~Truthy(SingleTarget)

\* the targets and kind a target spec has by the order of precedence
FollowsPrecedence(ts) ==
  IF args.target_spec_file.given
  THEN /\ ~ts.is_none
       /\ ts.targets_is_list = args.target_spec_file.targets_is_list
       /\ ts.targets = args.target_spec_file.targets
       /\ ts.kind = args.target_spec_file.kind
       /\ ts.primary_target = args.target_spec_file.primary_target
  ELSE IF SurvivalPairGiven
  THEN /\ ~ts.is_none
       /\ ts.targets = <<args.survival_event_col, args.survival_time_col>>
  ELSE IF _parse_csv_list(args.target_cols) # <<>>
  THEN /\ ~ts.is_none
       /\ ts.targets = _parse_csv_list(args.target_cols)
  ELSE IF Truthy(SingleTarget)
  THEN /\ ~ts.is_none
       /\ ts.targets = <<SingleTarget>>
  ELSE ts.is_none

\* C12: the target spec is the --target-spec-file document when one is given,
\* else the survival pair, else the --target-cols list, else the explicit or
\* inferred single target; with none of these there is no target spec and
\* target resolution does not fail.
C12_TargetPrecedence ==
  /\ [](pc \in {"label", "constraints", "write", "done"} =>
          FollowsPrecedence(target_spec))
  /\ [](\A s \in Written : FollowsPrecedence(s.target_spec))
  /\ [][(pc = "target" /\ NoTargetGiven) => pc' = "label"]_vars

\* a written schema for which a survival pair, a --target-cols list and an
\* explicit --target-col were all given
C12_Witness ==
  /\ out # <<>>
  /\ ~args.target_spec_file.given
  /\ SurvivalPairGiven
  /\ _parse_csv_list(args.target_cols) # <<>>
  /\ Truthy(args.target_col)

\* a written schema of a run with no source of targets
C12_WitnessNoTarget ==
  /\ out # <<>>
  /\ NoTargetGiven

(***************************************************************************)
(* render_datetime.py                                                      *)
(*                                                                         *)
(* A table is [columns, data]: the header and, per column, its cells as    *)
(* CSV text.  A DataFrame column is [dtype, vals], each value written as   *)
(* to_csv writes it (an int64 in decimal, a float64 by its repr, a missing  *)
(* value as the empty text).                                               *)
(***************************************************************************)
\* an epoch-ns instant inside the first second of D1 that float64 cannot hold
E3 == "1672531200123456789"

EpochTexts == {E1, E2, E3}

\* text that read_csv takes for an integer
IntegerTexts == EpochTexts \cup {"7"}

\* repr of the float64 nearest to an integer text (its ulp near 1.7e18 is 256)
FloatRepr(c) ==
  CASE c = E1 -> "1.6725312e+18"
    [] c = E2 -> "1.6726176e+18"
    [] c = E3 -> "1.6725312001234568e+18"
    [] c = "7" -> "7.0"
    [] OTHER -> c

\* the exact number a numeric text stands for, as its decimal integer text
Denotes(c) ==
  CASE c = "1.6725312e+18" -> E1
    [] c = "1.6726176e+18" -> E2
    [] c = "1.6725312001234568e+18" -> "1672531200123456768"
    [] c = "7.0" -> "7"
    [] OTHER -> c

\* pd.read_csv(args.data) on one column: int64, float64 when a cell is
\* missing, object when a cell is not a number
ReadCsvColumn(vals) ==
  IF vals # <<>> /\ \A c \in Range(vals) : c \in IntegerTexts
  THEN [dtype |-> "int64", vals |-> vals]
  ELSE IF \A c \in Range(vals) : c \in IntegerTexts \cup {NA}
  THEN [dtype |-> "float64", vals |-> [j \in DOMAIN vals |-> FloatRepr(vals[j])]]
  ELSE [dtype |-> "object", vals |-> vals]

\* line 23
ReadCsvFrame(table) ==
  [columns |-> table.columns,
   data |-> [c \in Range(table.columns) |-> ReadCsvColumn(table.data[c])]]

\* lines 40-41: pd.to_datetime(pd.to_numeric(v, errors="coerce"), unit="ns",
\* utc=True, errors="coerce"), to the day; NONE is NaT
EpochDay(v) ==
  CASE Denotes(v) \in {E1, E3, "1672531200123456768"} -> D1
    [] Denotes(v) = E2 -> D2
    [] Denotes(v) = "7" -> "1970-01-01"
    [] OTHER -> NONE

DefaultFormat == "%Y-%m-%dT%H:%M:%S"

\* dt.strftime(fmt) for the two formats the model draws; every instant of
\* the model lies in the first second of its day
Strftime(day, fmt) == IF fmt = "%Y-%m-%d" THEN day ELSE day \o "T00:00:00"

\* lines 34-38
OutputFormat(meta) ==
  IF meta.isdict /\ meta.fmt_is_str /\ meta.output_format \notin {NONE, "", "  "}
  THEN meta.output_format
  ELSE DefaultFormat

\* line 42: dt.dt.strftime(fmt).where(dt.notna(), pd.NA)
Rendered(series, fmt) ==
  [dtype |-> "object",
   vals |-> [j \in DOMAIN series.vals |->
               IF EpochDay(series.vals[j]) = NONE THEN NA
               ELSE Strftime(EpochDay(series.vals[j]), fmt)]]

\* out_df[name] = series: replaces the column, or appends a new one
SetColumn(frame, name, series) ==
  [columns |-> IF name \in Range(frame.columns) THEN frame.columns
               ELSE Append(frame.columns, name),
   data |-> Put(frame.data, name, series)]

\* line 49: out_df.to_csv(args.out, index=False)
to_csv(frame) ==
  [columns |-> frame.columns,
   data |-> [c \in Range(frame.columns) |-> frame.data[c].vals]]

\* line 25: schema.get("datetime_spec", {}) if isinstance(schema, dict) else {},
\* as the sequence of its items; line 26: <<>> also when it is not a dict
dspec ==
  IF schema_json.isdict /\ schema_json.has_dspec /\ schema_json.dspec_is_dict
  THEN schema_json.dspec ELSE <<>>

\* lines 23-30
LoadRender ==
  /\ rpc = "start"
  /\ out_df' = ReadCsvFrame(data_csv)
  /\ IF dspec = <<>>
     THEN /\ rpc' = "done"
          /\ UNCHANGED rqueue
     ELSE /\ rqueue' = dspec
          /\ rpc' = "loop"
  /\ UNCHANGED << data_csv, schema_json, keep_original, out_csv, mainVars, mergeVars >>

\* lines 31-46: one iteration over dspec.items()
RenderColumn ==
  /\ rpc = "loop"
  /\ rqueue # <<>>
  /\ LET col == Head(rqueue).col
         meta == Head(rqueue).meta
     IN IF col \notin Range(out_df.columns)
        THEN UNCHANGED out_df
        ELSE LET rendered == Rendered(out_df.data[col], OutputFormat(meta))
             IN out_df' = IF keep_original
                          THEN SetColumn(out_df, col \o "__rendered", rendered)
                          ELSE SetColumn(out_df, col, rendered)
  /\ rqueue' = Tail(rqueue)
  /\ rpc' = IF Tail(rqueue) = <<>> THEN "write" ELSE "loop"
  /\ UNCHANGED << data_csv, schema_json, keep_original, out_csv, mainVars, mergeVars >>

\* lines 48-50
WriteRendered ==
  /\ rpc = "write"
  /\ out_csv' = Append(out_csv, to_csv(out_df))
  /\ rpc' = "done"
  /\ UNCHANGED << data_csv, schema_json, keep_original, out_df, rqueue, mainVars,
                  mergeVars >>

\* the cells of an epoch-ns column, of another column, of a column that
\* already carries the sibling's name
EpochCells == EpochTexts \cup {NA, "abc"}
OtherCells == {"7", E3, NA, "abc"}
SiblingCells == {D1, NA}

RenderTables ==
  {[columns |-> <<"t">>, data |-> [c \in {"t"} |-> v]] :
     v \in [1..NRows -> EpochCells]}
  \cup {[columns |-> <<"t", "n">>, data |-> [c \in {"t", "n"} |->
                                              IF c = "t" THEN v ELSE w]] :
          v \in [1..NRows -> EpochCells], w \in [1..NRows -> OtherCells]}
  \cup {[columns |-> <<"t", "t__rendered">>,
         data |-> [c \in {"t", "t__rendered"} |-> IF c = "t" THEN v ELSE w]] :
          v \in [1..NRows -> EpochCells], w \in [1..NRows -> SiblingCells]}

Meta(isdict, isstr, fmt) ==
  [isdict |-> isdict, fmt_is_str |-> isstr, output_format |-> fmt]

Metas ==
  {Meta(TRUE, TRUE, "%Y-%m-%d"), Meta(TRUE, TRUE, "  "), Meta(TRUE, FALSE, NONE),
   Meta(FALSE, FALSE, NONE)}

Item(col, meta) == [col |-> col, meta |-> meta]

SchemaDoc(isdict, has, dspec_is_dict, items) ==
  [isdict |-> isdict, has_dspec |-> has, dspec_is_dict |-> dspec_is_dict,
   dspec |-> items]

RenderSchemas ==
  {SchemaDoc(FALSE, FALSE, FALSE, <<>>), SchemaDoc(TRUE, FALSE, FALSE, <<>>),
   SchemaDoc(TRUE, TRUE, FALSE, <<>>), SchemaDoc(TRUE, TRUE, TRUE, <<>>)}
  \cup {SchemaDoc(TRUE, TRUE, TRUE, <<Item("t", m)>>) : m \in Metas}
  \cup {SchemaDoc(TRUE, TRUE, TRUE, <<Item("ghost", m), Item("t", m)>>) : m \in Metas}
  \cup {SchemaDoc(TRUE, TRUE, TRUE, <<Item("ghost", m)>>) : m \in Metas}

InitRender ==
  /\ MainIdle
  /\ MergeIdle
  /\ data_csv \in RenderTables
  /\ schema_json \in RenderSchemas
  /\ keep_original \in BOOLEAN
  /\ out_df = <<>>
  /\ rqueue = <<>>
  /\ rpc = "start"
  /\ out_csv = <<>>

NextRender ==
  \/ LoadRender
  \/ RenderColumn
  \/ WriteRendered

SpecRender == InitRender /\ [][NextRender]_vars

(***************************************************************************)
(* Properties of the rendered table                                        *)
(***************************************************************************)
\* the datetime_spec entries whose column is in the input table
DatetimeItems == {it \in Range(dspec) : it.col \in Range(data_csv.columns)}

\* a written column holds the values of an input column
SameValues(written, input) ==
  /\ DOMAIN written = DOMAIN input
  /\ \A j \in DOMAIN input : Denotes(written[j]) = Denotes(input[j])

\* C13: for each datetime_spec entry whose column is in the input table,
\* every non-missing value is replaced by its formatted date string and every
\* missing value stays missing, in place without --keep-original and in
\* <col>__rendered with it, the original column then keeping exactly its
\* input values; a schema with no datetime_spec entries makes the run a no-op.
C13_RendersEveryValue ==
  /\ \A o \in Range(out_csv) : \A it \in DatetimeItems :
       LET input == data_csv.data[it.col]
           target == IF keep_original THEN it.col \o "__rendered" ELSE it.col
       IN /\ target \in Range(o.columns)
          /\ \A j \in DOMAIN input :
               IF input[j] = NA THEN o.data[target][j] = NA
               ELSE /\ o.data[target][j] # NA
                    /\ EpochDay(input[j]) # NONE =>
                         o.data[target][j] =
                           Strftime(EpochDay(input[j]), OutputFormat(it.meta))
          /\ keep_original => SameValues(o.data[it.col], input)
  /\ (dspec = <<>> /\ rpc # "start") => (rpc = "done" /\ out_csv = <<>>)

\* C17: every input column not named in datetime_spec has exactly its input
\* values in the output table, and with --keep-original so has every input
\* column, the rendered values being in newly added columns only.
C17_OnlyDatetimeColumnsChange ==
  \A o \in Range(out_csv) : \A c \in Range(data_csv.columns) :
    (keep_original \/ c \notin {it.col : it \in Range(dspec)}) =>
      /\ c \in Range(o.columns)
      /\ SameValues(o.data[c], data_csv.data[c])

(***************************************************************************)
(* Properties of a survival_pair target spec document                      *)
(***************************************************************************)
\* --target-spec-file holds a survival_pair document with two targets, the
\* first an integer column of the table
SurvivalDocument ==
  /\ args.target_spec_file.given
  /\ args.target_spec_file.isdict
  /\ args.target_spec_file.kind = "survival_pair"
  /\ args.target_spec_file.targets_is_list
  /\ Len(args.target_spec_file.targets) = 2
  /\ args.target_spec_file.targets[1] \in Range(df.columns)
  /\ is_integer_dtype(df.data[args.target_spec_file.targets[1]])

\* C14: given a survival_pair target spec document with targets [event, time]
\* and an integer event column, the written schema has target_spec.kind =
\* "survival_pair", column_types[event] = "ordinal",
\* public_categories[event] = ["0","1"] and label_domain = [].
C14_SurvivalEventOrdinal ==
  \A s \in Written :
    SurvivalDocument =>
      LET event == args.target_spec_file.targets[1]
      IN /\ s.target_spec.kind = "survival_pair"
         /\ s.column_types[event] = "ordinal"
         /\ event \in DOMAIN s.public_categories
         /\ s.public_categories[event] = <<"0", "1">>
         /\ s.label_domain = <<>>

InvalidOverrideType ==
  /\ args.column_types.given
  /\ args.column_types.isdict
  /\ \E k \in DOMAIN args.column_types.entries :
       LET e == args.column_types.entries[k]
       IN /\ e.shape \in {"str", "dict"}
          /\ e.type # NONE
          /\ StripLower(e.type) \notin CanonicalTypes

\* C16: an override entry with an invalid type string aborts the run and no
\* schema is written, whatever column it names and however that column
\* would otherwise be classified.
C16_InvalidOverrideTypeAborts ==
  InvalidOverrideType => (out = <<>> /\ pc \notin {"write", "done"})

(***************************************************************************)
(* Properties of the target spec built from flags                          *)
(***************************************************************************)
\* C18: in a target spec built from flags primary_target is null or one of
\* targets, and the keys of dtypes are exactly the entries of targets.
C18_PrimaryTargetAmongTargets ==
  \A s \in Written :
    (~args.target_spec_file.given /\ ~s.target_spec.is_none) =>
      /\ \/ s.target_spec.primary_target = NONE
         \/ s.target_spec.primary_target \in Range(s.target_spec.targets)
      /\ s.target_spec.dtypes_is_dict
      /\ DOMAIN s.target_spec.dtypes = Range(s.target_spec.targets)

====
